---- MODULE Spec2Model ----
(***************************************************************************)
(* Verification model of decode-the-drawings: the trailing median filter   *)
(* (smoothing.py), the colour segmentation (image_processing.threshold),   *)
(* the ray, trilateration and orientation functions of vectors.py, the     *)
(* lookup tables of image_processing.py, media.video_generator, and the    *)
(* main loop of script.py with its pen-state / segment management.         *)
(*                                                                         *)
(* Coordinates are integers.  The sample domains hold even numbers only,   *)
(* so the mean of the two middle values that np.median takes for a window  *)
(* of even size is an integer and is computed exactly.                     *)
(***************************************************************************)
EXTENDS Integers, Naturals, Sequences, FiniteSets, TLC

VARIABLES
    path, smoothness, new_path, smooth_pc,
    pixel, sat_pct, lightness_threshold, cast_mode, mask, thr_pc,
    projected_points, vw, vh, f, rays, rays_pc,
    ts_rays, ts_side, ts_rounding, ts, ts_pc,
    balls, orientation, orient_pc,
    \* media.video_generator
    audio_buffer, previous_audio, yielded, n_packets, n_decoded,
    decoded_since_yield,
    \* image_processing.py: module-level tables
    PIXEL_AREA_CACHE, PIXEL_WEIGHT_CACHE, F_CACHE, RAYS_CACHE, DISTANCE_CACHE,
    n_calls, last_call, prev_call,
    \* script.py: the configuration, fixed for a run
    TANGENTIAL_ELLIPSE_CORRECTION, WEIGHTED_PIXELS_ELLIPSE_CORRECTION,
    IGNORE_AUDIO, IGNORE_BALL_RADIUS,
    \* script.py: the state of the run
    STATUS,          \* "init" before line 126, then the script's STATUS;
                     \* "crashed" after an uncaught exception
    pos,             \* frames taken from the video generator so far
    frame,           \* what the current frame_array / aud_array show
    pen_down,        \* "undefined" until line 189 has run
    FOCAL_LENGTH, width, height, ball_actual_radius,   \* lines 135-151
    ball_projected_radius,
    pen_tip,         \* the pen tip of line 246; <<0, 0, 0>> until assigned
    ball_rays,       \* what ball_rays holds: "undefined", "unit3" (three
                     \* 3-component unit vectors), "centroids2" (three
                     \* 2-component pixel centroids), "nan3"
    points, paths,
    axis_widget,     \* the axes held by the AxisWidget
    image_pixels, image_curr_pos,   \* ImageWidget.pixels and .curr_pos
    pixels_file, writes,            \* content of OUTPUT_FILENAME, number of writes
    \* history of the run, read by no action
    raw_segments,    \* the samples appended to each segment, unsmoothed
    transitions,     \* pen-up frames that followed an appended sample
    \* vectors.calibrate_focal_length
    calib_points, initial_z, initial_dst, focal_length, calib_pc,
    \* image_processing.filter_line
    p1, p2, nonzeros, scalars, filtered, filter_pc,
    \* image_processing.get_tangential_points
    threshold_array, use_line_mask, tangential_points,
    ball_px,         \* history: the pixels each channel was searched over
    tan_pc

cfgVars  == <<TANGENTIAL_ELLIPSE_CORRECTION, WEIGHTED_PIXELS_ELLIPSE_CORRECTION,
              IGNORE_AUDIO, IGNORE_BALL_RADIUS>>
calibVars == <<FOCAL_LENGTH, width, height, ball_actual_radius>>
loopVars == <<STATUS, pos, frame, pen_down, calibVars, ball_projected_radius,
              pen_tip, ball_rays, points, paths, axis_widget,
              image_pixels, image_curr_pos, pixels_file, writes,
              raw_segments, transitions>>
raysVars   == <<projected_points, vw, vh, f, rays, rays_pc>>
tsVars     == <<ts_rays, ts_side, ts_rounding, ts, ts_pc>>
orientVars == <<balls, orientation, orient_pc>>
genVars    == <<audio_buffer, previous_audio, yielded, n_packets, n_decoded,
                decoded_since_yield>>
cacheVars  == <<PIXEL_AREA_CACHE, PIXEL_WEIGHT_CACHE, F_CACHE, RAYS_CACHE,
                DISTANCE_CACHE, n_calls, last_call, prev_call>>
smoothVars == <<path, smoothness, new_path, smooth_pc>>
thrVars    == <<pixel, sat_pct, lightness_threshold, cast_mode, mask, thr_pc>>
calibFnVars == <<calib_points, initial_z, initial_dst, focal_length,
                 calib_pc>>
filterVars == <<p1, p2, nonzeros, scalars, filtered, filter_pc>>
tanVars    == <<threshold_array, use_line_mask, tangential_points, ball_px,
                tan_pc>>
fnVars     == <<calibFnVars, filterVars, tanVars>>
vars       == <<smoothVars, thrVars, raysVars, tsVars, orientVars, genVars,
                cacheVars, cfgVars, loopVars, fnVars>>

(***************************************************************************)
(* Bounds                                                                  *)
(***************************************************************************)
MaxPathLen    == 5
MaxSmoothness == 4
MaxVideoLen   == 45

(***************************************************************************)
(* Floating point: the value a division 0/0 or a mean of no values yields. *)
(* It is encoded by an integer outside every coordinate domain.            *)
(***************************************************************************)
NaN == 0 - 1

Range(s) == {s[i] : i \in DOMAIN s}

Max(a, b) == IF a >= b THEN a ELSE b

(***************************************************************************)
(* smoothing.py                                                            *)
(***************************************************************************)
RECURSIVE Insert(_, _)
Insert(v, s) ==
    IF s = <<>> THEN <<v>>
    ELSE IF v <= Head(s) THEN <<v>> \o s
    ELSE <<Head(s)>> \o Insert(v, Tail(s))

RECURSIVE Sort(_)
Sort(s) == IF s = <<>> THEN <<>> ELSE Insert(Head(s), Sort(Tail(s)))

\* Variant of Median with an index slip into the sorted array.
Median_upper(vals) ==
    IF NaN \in Range(vals) THEN NaN
    ELSE LET s == Sort(vals)
             n == Len(s)
         IN  IF n % 2 = 1 THEN s[IF n > 1 THEN (n + 1) \div 2 + 1 ELSE 1]
             ELSE (s[n \div 2] + s[n \div 2 + 1]) \div 2

\* np.median of a non-empty 1-D array: the middle value of the sorted array,
\* the mean of the two middle values when the size is even, nan when a nan
\* is among the values.
Median(vals) ==
    IF NaN \in Range(vals) THEN NaN
    ELSE LET s == Sort(vals)
             n == Len(s)
         IN  IF n % 2 = 1 THEN s[(n + 1) \div 2]
             ELSE (s[n \div 2] + s[n \div 2 + 1]) \div 2

\* np.median(points, axis=0): the median of each coordinate on its own.
MedianPoint(pts) ==
    << Median([i \in 1..Len(pts) |-> pts[i][1]]),
       Median([i \in 1..Len(pts) |-> pts[i][2]]) >>

\* Variants of the filter with a plausible slip, used to test the properties.
median_line_smoothing_shifted(p, k) ==
    IF Len(p) = 0 THEN <<>>
    ELSE IF Len(p) <= k THEN << MedianPoint(p) >>
    ELSE [i \in 1..(Len(p) - k) |-> MedianPoint(SubSeq(p, i + 1, i + k))]

median_line_smoothing_raw_short(p, k) ==
    IF Len(p) = 0 THEN <<>>
    ELSE IF Len(p) <= k THEN p
    ELSE [i \in 1..(Len(p) - k) |-> MedianPoint(SubSeq(p, i, i + k - 1))]

\* median_line_smoothing(path, smoothness); python's path[i:i+k] for
\* i in range(len(path) - k) is SubSeq(p, i, i+k-1) for i in 1..len-k.
median_line_smoothing(p, k) ==
    IF Len(p) = 0 THEN <<>>
    ELSE IF Len(p) <= k THEN << MedianPoint(p) >>
    ELSE [i \in 1..(Len(p) - k) |-> MedianPoint(SubSeq(p, i, i + k - 1))]

SmoothPoints == {<<0, 0>>, <<2, 0>>, <<0, 2>>, <<2, 2>>, <<4, 4>>}
SmoothPaths  == UNION {[1..n -> SmoothPoints] : n \in 0..MaxPathLen}

\* One call new_path = median_line_smoothing(path, smoothness).
Smooth ==
    /\ smooth_pc = "start"
    /\ new_path' = median_line_smoothing(path, smoothness)
    /\ smooth_pc' = "done"
    /\ UNCHANGED <<path, smoothness>>

(***************************************************************************)
(* image_processing.threshold on one pixel of a uint8 frame.               *)
(* avg * inv_saturation_threshold is sum * 100 / (3 * sat_pct), script.py  *)
(* passing inv_saturation_threshold = 100 / PIXEL_SATURATION_THRESHOLD.    *)
(* The arithmetic is exact here; float32 rounding is not modelled.         *)
(***************************************************************************)
Sum3(px) == px[1] + px[2] + px[3]

\* .astype(uint8) of a non-negative float: the fraction is dropped; a value
\* above 255 is out of range of the target type, which the C conversion
\* leaves undefined: builds wrap modulo 2^8 or saturate.
AsUint8(q, mode) ==
    IF q <= 255 THEN q
    ELSE IF mode = "wrap" THEN q % 256 ELSE 255

\* threshold(frame, inv_saturation_threshold, lightness_threshold) at one
\* pixel: floor(max(avg * inv, light)) = max(floor(avg * inv), light) for
\* an integer light.
threshold(px, pct, light, mode) ==
    LET scaled == (Sum3(px) * 100) \div (3 * pct)
        per_pixel_thresh == AsUint8(Max(scaled, light), mode)
    IN  [c \in 1..3 |-> px[c] > per_pixel_thresh]

ChannelValues   == {0, 89, 90, 91, 200, 255}
SaturationPcts  == {50, 75, 100}
LightnessValues == {0, 90, 255}
CastModes       == {"wrap", "saturate"}

Threshold ==
    /\ thr_pc = "start"
    /\ mask' = threshold(pixel, sat_pct, lightness_threshold, cast_mode)
    /\ thr_pc' = "done"
    /\ UNCHANGED <<pixel, sat_pct, lightness_threshold, cast_mode>>

(***************************************************************************)
(* vectors.py.  A vector of integers dir with a positive integer den2      *)
(* stands for the real vector dir / sqrt(den2); den2 = 0 stands for the    *)
(* vector of nan that a division 0/0 yields.  Square roots are never       *)
(* evaluated, so the arithmetic is exact.                                  *)
(***************************************************************************)
Dot(a, b)   == a[1] * b[1] + a[2] * b[2] + a[3] * b[3]
Cross(a, b) == << a[2] * b[3] - a[3] * b[2],
                  a[3] * b[1] - a[1] * b[3],
                  a[1] * b[2] - a[2] * b[1] >>
Minus(a, b) == << a[1] - b[1], a[2] - b[2], a[3] - b[3] >>
Zero3       == <<0, 0, 0>>

Exact(v)        == [dir |-> v, den2 |-> 1]
CrossS(a, b)    == [dir |-> Cross(a.dir, b.dir), den2 |-> a.den2 * b.den2]

\* normalize(v) = v / distance(v): the same direction, length one; the zero
\* vector and a nan vector give nan.
normalize(v) ==
    IF v.den2 = 0 THEN [dir |-> Zero3, den2 |-> 0]
    ELSE [dir |-> v.dir, den2 |-> Dot(v.dir, v.dir)]

\* Variant of get_rays without the flip of the y axis.
get_rays_unflipped(pts, w, h, fl) ==
    [i \in 1..Len(pts) |->
        normalize([dir |-> << 2 * pts[i][1] - w, 2 * pts[i][2] - h, 0 - 2 * fl >>,
                   den2 |-> 4])]

\* get_rays(projected_points, vw, vh, f): row i is
\* normalize((px - vw/2, -(py - vh/2), -f)); the row is held doubled, over
\* sqrt(4), to keep vw/2 and vh/2 exact for odd sizes.
get_rays(pts, w, h, fl) ==
    [i \in 1..Len(pts) |->
        normalize([dir |-> << 2 * pts[i][1] - w, 0 - (2 * pts[i][2] - h),
                              0 - 2 * fl >>,
                   den2 |-> 4])]

MaxPoints    == 2
PixelCoords  == 0..3
PointLists   == UNION {[1..n -> PixelCoords \X PixelCoords] : n \in 1..MaxPoints}
ViewWidths   == {3, 4}
ViewHeights  == {2, 3}
FocalLengths == {1, 2}

\* One call rays = get_rays(projected_points, vw, vh, f).
GetRays ==
    /\ rays_pc = "start"
    /\ rays' = get_rays(projected_points, vw, vh, f)
    /\ rays_pc' = "done"
    /\ UNCHANGED <<projected_points, vw, vh, f>>

(***************************************************************************)
(* compute_ts.  A unit ray is v / sqrt(RayNorm2) for an integer vector v   *)
(* with Dot(v, v) = RayNorm2, so np.dot(ri, rj) = Dot(vi, vj) / RayNorm2   *)
(* and u_ij = U_ij / RayNorm2 with U_ij = RayNorm2 - Dot(vi, vj).          *)
(* In double precision np.dot(r, r) of a unit ray is 1 - ulp, 1 or 1 + ulp *)
(* by the ray (all three occur); rounding says which: -1, 0 or 1.  For     *)
(* different rays the rounding is far below u_ij and is left out.          *)
(* The result holds, for each scale factor t_k, its kind and its numerator *)
(* num[k] = side * U_ij, with the radicand rad = 2 * U12 * U23 * U13:      *)
(*     t_k = (num[k] / RayNorm2) / sqrt(rad / RayNorm2^3)   when "finite". *)
(* The other kinds: "nan", "inf", "huge" (a quantity of order 1 over the   *)
(* square root of one of order ulp), "tiny" (the inverse).                 *)
(***************************************************************************)
RayNorm2 == 9
RayVecs  == { <<1, 2, 0 - 2>>, <<2, 1, 0 - 2>>, <<0 - 1, 2, 0 - 2>>,
              <<2, 2, 0 - 1>>, <<0, 0, 0 - 3>>, <<0 - 2, 0 - 1, 0 - 2>> }
Sides    == {1, 9}
Roundings == {0 - 1, 0, 1}

\* Variant of compute_ts that keeps the divisor away from zero.
compute_ts_regularized(r1, r2, r3, side, rounding) ==
    LET U12 == RayNorm2 - Dot(r1, r2)
        U23 == RayNorm2 - Dot(r2, r3)
        U13 == RayNorm2 - Dot(r1, r3)
        U   == <<U23, U13, U12>>
        degenerate == 0 \in {U12, U23, U13}
    IN  [kind |-> [k \in 1..3 |-> IF degenerate THEN "tiny" ELSE "finite"],
         num  |-> [k \in 1..3 |-> side * U[k]],
         rad  |-> 2 * U12 * U23 * U13]

\* compute_ts(r1, r2, r3, side), lines 87-92.
compute_ts(r1, r2, r3, side, rounding) ==
    LET U12 == RayNorm2 - Dot(r1, r2)
        U23 == RayNorm2 - Dot(r2, r3)
        U13 == RayNorm2 - Dot(r1, r3)
        U   == <<U23, U13, U12>>
        degenerate == 0 \in {U12, U23, U13}
        \* u_ij of two identical rays is -rounding ulps; the radicand holds
        \* one or three such factors and has their sign.
        Kind(k) ==
            IF ~degenerate THEN "finite"
            ELSE IF rounding = 1 THEN "nan"           \* sqrt of a negative
            ELSE IF rounding = 0
                 THEN (IF U[k] = 0 THEN "nan" ELSE "inf")   \* 0/0, x/0
            ELSE IF U12 = 0 /\ U23 = 0 /\ U13 = 0 THEN "huge"
            ELSE IF U[k] = 0 THEN "tiny" ELSE "huge"
    IN  [kind |-> [k \in 1..3 |-> Kind(k)],
         num  |-> [k \in 1..3 |-> side * U[k]],
         rad  |-> 2 * U12 * U23 * U13]

\* One call ts = compute_ts(r1, r2, r3, side).
ComputeTs ==
    /\ ts_pc = "start"
    /\ ts' = compute_ts(ts_rays[1], ts_rays[2], ts_rays[3], ts_side, ts_rounding)
    /\ ts_pc' = "done"
    /\ UNCHANGED <<ts_rays, ts_side, ts_rounding>>

\* Variant of get_orientation with the operands of the last product swapped.
get_orientation_swapped(b1, b2, b3) ==
    LET x_axis == normalize(Exact(Minus(b2, b3)))
        z_axis == normalize(CrossS(x_axis, Exact(Minus(b1, b3))))
        y_axis == normalize(CrossS(x_axis, z_axis))
    IN  <<x_axis, y_axis, z_axis>>

\* get_orientation(b1, b2, b3), lines 103-106.
get_orientation(b1, b2, b3) ==
    LET x_axis == normalize(Exact(Minus(b2, b3)))
        z_axis == normalize(CrossS(x_axis, Exact(Minus(b1, b3))))
        y_axis == normalize(CrossS(z_axis, x_axis))
    IN  <<x_axis, y_axis, z_axis>>

BallCoords == {0, 1, 2}
BallPoints == BallCoords \X BallCoords \X BallCoords

\* One call orientation = get_orientation(b1, b2, b3).
GetOrientation ==
    /\ orient_pc = "start"
    /\ orientation' = get_orientation(balls[1], balls[2], balls[3])
    /\ orient_pc' = "done"
    /\ UNCHANGED balls

(***************************************************************************)
(* media.video_generator.  Audio samples are numbered in decoding order;   *)
(* an audio frame is one number.  yielded records, for every yield, the    *)
(* chunk delivered with the video frame and (history) the samples decoded  *)
(* since the yield before it.                                              *)
(***************************************************************************)
MaxPackets == 5
MaxDecoded == 2

\* Lines 22-24: an audio packet; each decoded frame is appended.
AudioPacket ==
    /\ n_packets < MaxPackets
    /\ \E n \in 1..MaxDecoded :
          LET fresh == [i \in 1..n |-> n_decoded + i]
          IN  /\ audio_buffer' = audio_buffer \o fresh
              /\ decoded_since_yield' = decoded_since_yield \o fresh
              /\ n_decoded' = n_decoded + n
    /\ n_packets' = n_packets + 1
    /\ UNCHANGED <<previous_audio, yielded>>

\* Lines 29-34: aud is the buffered audio, or previous_audio when the
\* buffer is empty.
NextChunk(buffer, previous) ==
    IF buffer # <<>> THEN buffer ELSE previous

\* Lines 26-40: one decoded video frame is yielded with its chunk.
VideoFrame ==
    /\ n_packets < MaxPackets
    /\ LET aud == NextChunk(audio_buffer, previous_audio)
       IN  /\ previous_audio' = IF audio_buffer # <<>> THEN aud
                                ELSE previous_audio
           /\ yielded' = Append(yielded,
                                [aud |-> aud, decoded |-> decoded_since_yield])
    /\ audio_buffer' = <<>>
    /\ decoded_since_yield' = <<>>
    /\ n_packets' = n_packets + 1
    /\ UNCHANGED n_decoded

(***************************************************************************)
(* image_processing.py: the module-level lookup tables.  A table is        *)
(* described by the resolution and focal length it was built for; None is  *)
(* NoTable, and F_CACHE = 0 is None (focal lengths are positive).          *)
(* last_call and prev_call are history: the last call, and for each        *)
(* function the arguments of its latest call.                              *)
(***************************************************************************)
MaxCalls    == 4
NoTable     == [built |-> FALSE, shape |-> <<0, 0>>, f |-> 0]
Table(sh, fl) == [built |-> TRUE, shape |-> sh, f |-> fl]
NoCall      == [called |-> FALSE, shape |-> <<0, 0>>, f |-> 0]
Shapes      == {<<4, 2>>, <<2, 2>>}
CacheFocals == {1, 2}

\* Line 51: PIXEL_AREA_CACHE is None or its shape differs or F_CACHE != f.
WeightedStale(sh, fl) ==
    ~PIXEL_AREA_CACHE.built \/ PIXEL_AREA_CACHE.shape # sh \/ F_CACHE # fl

\* Line 77: RAYS_CACHE is None or RAYS_CACHE.shape != (w, h) or F_CACHE != f.
\* Line 80 sums the table over axis 2, so the table has three dimensions
\* and its shape, (w, h, 3), never equals the pair (w, h).
RenderStale(sh, fl) ==
    ~RAYS_CACHE.built \/ <<RAYS_CACHE.shape[1], RAYS_CACHE.shape[2], 3>> # sh
        \/ F_CACHE # fl

\* Line 106: DISTANCE_CACHE is None or its shape differs.
TangentialStale(sh) ==
    ~DISTANCE_CACHE.built \/ DISTANCE_CACHE.shape # sh

\* get_all_balls_weighted(threshold_array, f), lines 46-64.
CallWeighted ==
    /\ n_calls < MaxCalls
    /\ \E sh \in Shapes, fl \in CacheFocals :
          /\ IF WeightedStale(sh, fl)
             THEN /\ PIXEL_AREA_CACHE' = Table(sh, fl)
                  /\ PIXEL_WEIGHT_CACHE' = Table(sh, fl)
                  /\ F_CACHE' = fl
             ELSE UNCHANGED <<PIXEL_AREA_CACHE, PIXEL_WEIGHT_CACHE, F_CACHE>>
          /\ last_call' = [fn |-> "weighted", shape |-> sh, f |-> fl,
                           recomputed |-> WeightedStale(sh, fl),
                           prev |-> prev_call["weighted"],
                           used |-> PIXEL_AREA_CACHE']
          /\ prev_call' = [prev_call EXCEPT
                              !["weighted"] = [called |-> TRUE, shape |-> sh,
                                               f |-> fl]]
    /\ n_calls' = n_calls + 1
    /\ UNCHANGED <<RAYS_CACHE, DISTANCE_CACHE>>

\* render_ball(center, radius, distance, w, h, f), lines 76-82.
CallRenderBall ==
    /\ n_calls < MaxCalls
    /\ \E sh \in Shapes, fl \in CacheFocals :
          /\ IF RenderStale(sh, fl)
             THEN /\ RAYS_CACHE' = Table(sh, fl)
                  /\ F_CACHE' = fl
             ELSE UNCHANGED <<RAYS_CACHE, F_CACHE>>
          /\ last_call' = [fn |-> "render", shape |-> sh, f |-> fl,
                           recomputed |-> RenderStale(sh, fl),
                           prev |-> prev_call["render"],
                           used |-> RAYS_CACHE']
          /\ prev_call' = [prev_call EXCEPT
                              !["render"] = [called |-> TRUE, shape |-> sh,
                                             f |-> fl]]
    /\ n_calls' = n_calls + 1
    /\ UNCHANGED <<PIXEL_AREA_CACHE, PIXEL_WEIGHT_CACHE, DISTANCE_CACHE>>

\* get_tangential_points(threshold_array, use_line_mask), lines 101-110;
\* the function takes no focal length (f is 0 in its records).
CallTangential ==
    /\ n_calls < MaxCalls
    /\ \E sh \in Shapes :
          /\ DISTANCE_CACHE' = IF TangentialStale(sh) THEN Table(sh, 0)
                               ELSE DISTANCE_CACHE
          /\ last_call' = [fn |-> "tangential", shape |-> sh, f |-> 0,
                           recomputed |-> TangentialStale(sh),
                           prev |-> prev_call["tangential"],
                           used |-> DISTANCE_CACHE']
          /\ prev_call' = [prev_call EXCEPT
                              !["tangential"] = [called |-> TRUE, shape |-> sh,
                                                 f |-> 0]]
    /\ n_calls' = n_calls + 1
    /\ UNCHANGED <<PIXEL_AREA_CACHE, PIXEL_WEIGHT_CACHE, F_CACHE, RAYS_CACHE>>

(***************************************************************************)
(* script.py: configuration constants                                      *)
(***************************************************************************)
SMOOTHING_CONSTANT == 1
END_SMOOTHING      == 10
SKIP_FRAMES        == 10
PEN_LENGTH         == 18
PEN_THRESHOLD      == 1
INITIAL_Z          == 18
BALL_RADIUS        == 3
\* Line 141 with CAM_RESOLUTION[0] = 1280 and CAM_HORIZONTAL_FOV = 89:
\* 640 / tan(44.5 degrees) = 651.27..., kept to the unit.
FOV_FOCAL_LENGTH   == 651

(***************************************************************************)
(* A frame is described by what the pipeline derives from it:              *)
(*   aud   audio_intensity(aud_array) >= AUDIO_THRESHOLD                   *)
(*   geom  "ok", or the way its geometry degenerates: "nopixels" (a        *)
(*         channel of the mask has no on-pixel), "collinear" (the three    *)
(*         marker positions are collinear), "zerodisc" (the discriminant   *)
(*         of compute_ts is zero; only where compute_ts runs)              *)
(* and by the pen tip <<x, y, z>> a frame with sound geometry yields.      *)
(* A ray of length zero needs f = 0, which no focal length of script.py    *)
(* lines 135-141 with a positive field of view gives; it is left out.      *)
(***************************************************************************)
Geoms  == {"ok", "nopixels", "collinear", "zerodisc"}
Frames == [aud : BOOLEAN, geom : Geoms]
TipXs  == {0, 2}
TipYs  == {0 - PEN_LENGTH, 0 - PEN_LENGTH + PEN_THRESHOLD}
TipZs  == {0}
Tips   == TipXs \X TipYs \X TipZs
NaNTip == <<NaN, NaN, NaN>>

Last(s) == s[Len(s)]

HasNaN(pts) == \E i \in DOMAIN pts : NaN \in {pts[i][1], pts[i][2]}

\* points = [i for sublist in paths for i in sublist]
RECURSIVE Flatten(_)
Flatten(ps) == IF ps = <<>> THEN <<>> ELSE Head(ps) \o Flatten(Tail(ps))

(***************************************************************************)
(* Lines 203-247: the pen tip the pipeline computes for a frame, as the    *)
(* set of outcomes.  raised: an exception leaves the script.               *)
(*  - weighted pixels (and not tangential): get_all_balls_weighted returns *)
(*    2-D centroids as ball_rays; np.average raises ZeroDivisionError for  *)
(*    a channel without on-pixels, and otherwise get_orientation gets 2-D  *)
(*    vectors, whose first np.cross is 0-d and whose second np.cross       *)
(*    raises ValueError.                                                   *)
(*  - tangential: get_tangential_points skips a channel without on-pixels  *)
(*    and returns its row of np.empty uninitialised: any pen tip.          *)
(*  - naive: the mean of no pixels is nan and spreads to the whole tip.    *)
(*  - collinear positions: z_axis and y_axis are 0/0, x_axis is sound.     *)
(*  - zero discriminant in compute_ts: the scale factors are not finite.   *)
(***************************************************************************)
Pose(tip, r) == [raised |-> FALSE, tip |-> tip, rays |-> r]
Raised(r)    == [raised |-> TRUE, tip |-> NaNTip, rays |-> r]

\* rays: what lines 203-223 leave in ball_rays (unchanged when the
\* exception is raised inside get_all_balls_weighted).
PoseOutcomes(fr, tip) ==
    IF WEIGHTED_PIXELS_ELLIPSE_CORRECTION /\ ~TANGENTIAL_ELLIPSE_CORRECTION
    THEN IF fr.geom = "nopixels" THEN {Raised(ball_rays)}
         ELSE {Raised("centroids2")}
    ELSE CASE fr.geom = "ok" -> {Pose(tip, "unit3")}
           [] fr.geom = "nopixels" ->
                IF TANGENTIAL_ELLIPSE_CORRECTION
                THEN {Pose(t, "unit3") : t \in Tips}
                         \cup {Pose(NaNTip, r) : r \in {"unit3", "nan3"}}
                ELSE {Pose(NaNTip, "nan3")}
           [] fr.geom = "collinear" -> {Pose(<<tip[1], NaN, NaN>>, "unit3")}
           [] fr.geom = "zerodisc" -> {Pose(NaNTip, "unit3")}

\* get_all_balls, line 27: radius = sqrt(#on-pixels / pi), in pixels.
ProjectedRadius(fr) == IF fr.geom = "nopixels" THEN 0 ELSE 108

\* Line 147: ball_projected_radius * INITIAL_Z / FOCAL_LENGTH, in
\* thousandths of a centimetre.
ActualRadius(projected, fl) == (projected * INITIAL_Z * 1000) \div fl

\* Variant in which the detection of a frame recalibrates the radius.
DetectedRadii_recalibrated(fr, projected, actual, fl) ==
    IF ~TANGENTIAL_ELLIPSE_CORRECTION /\ ~WEIGHTED_PIXELS_ELLIPSE_CORRECTION
    THEN [projected |-> ProjectedRadius(fr),
          actual |-> ActualRadius(ProjectedRadius(fr), fl)]
    ELSE [projected |-> projected, actual |-> actual]

\* Lines 219-222: only the naive strategy calls get_all_balls in the loop;
\* it reassigns ball_projected_radius, and nothing in the loop assigns
\* ball_actual_radius.
DetectedRadii(fr, projected, actual, fl) ==
    IF ~TANGENTIAL_ELLIPSE_CORRECTION /\ ~WEIGHTED_PIXELS_ELLIPSE_CORRECTION
    THEN [projected |-> ProjectedRadius(fr), actual |-> actual]
    ELSE [projected |-> projected, actual |-> actual]

\* Lines 203-235 as far as the calibration is concerned.
Detect(fr) ==
    LET d == DetectedRadii(fr, ball_projected_radius, ball_actual_radius,
                           FOCAL_LENGTH)
    IN  /\ ball_projected_radius' = d.projected
        /\ ball_actual_radius' = d.actual
        /\ UNCHANGED <<FOCAL_LENGTH, width, height>>

\* frame_array.shape of the video (W x H x 3).
FrameShapes == {<<1280, 720>>, <<640, 360>>}

\* Variant of save_pixels with the two columns exchanged.
save_pixels_swapped(pixels) ==
    [i \in 1..Len(pixels) |->
        (IF pixels[i][2] = NaN THEN "nan" ELSE ToString(pixels[i][2]) \o ".0")
        \o " " \o
        (IF pixels[i][1] = NaN THEN "nan" ELSE ToString(pixels[i][1]) \o ".0")
        \o "\n"]

\* Lines 112-120: f"{i[0]} {i[1]}\n" for every pixel; the file is the
\* sequence of its lines.  The coordinates are floats: an integral value
\* v is written "v.0" and nan is written "nan".
save_pixels(pixels) ==
    [i \in 1..Len(pixels) |->
        (IF pixels[i][1] = NaN THEN "nan" ELSE ToString(pixels[i][1]) \o ".0")
        \o " " \o
        (IF pixels[i][2] = NaN THEN "nan" ELSE ToString(pixels[i][2]) \o ".0")
        \o "\n"]

\* Lines 253-255: in pen-height mode the pen is up when the tip is not below
\* -PEN_LENGTH + PEN_THRESHOLD; a comparison with nan is false.
HeightSaysUp(tip) ==
    /\ IGNORE_AUDIO
    /\ tip[2] # NaN
    /\ tip[2] >= 0 - PEN_LENGTH + PEN_THRESHOLD

\* Variant that inserts the sample at the head of the open segment.
AppendSample_front(ps, smp) == [ps EXCEPT ![Len(ps)] = <<smp>> \o @]

\* Line 259: paths[-1].append(sample)
AppendSample(ps, smp) == [ps EXCEPT ![Len(ps)] = Append(@, smp)]

\* Variants of the segment operations with a plausible slip.
CloseSegment_always(ps) ==
    Append([ps EXCEPT ![Len(ps)] =
               median_line_smoothing(@, SMOOTHING_CONSTANT)], <<>>)

\* Lines 261-264: a pen-up frame closes a non-empty open segment.
CloseSegment(ps) ==
    IF Len(Last(ps)) > 0
    THEN Append([ps EXCEPT ![Len(ps)] =
                    median_line_smoothing(@, SMOOTHING_CONSTANT)], <<>>)
    ELSE ps

FinalizeOpenSegment_none(ps) == ps

FinalizeOpenSegment_all(ps) ==
    [i \in 1..Len(ps) |-> median_line_smoothing(ps[i], END_SMOOTHING)]

\* Line 182: paths[-1] = median_line_smoothing(paths[-1], 10)
FinalizeOpenSegment(ps) ==
    [ps EXCEPT ![Len(ps)] = median_line_smoothing(@, END_SMOOTHING)]

\* root.render(): ImageWidget.render converts the scaled positions with
\* int(), which raises ValueError for nan, while "Show Drawing" is checked.
WidgetsHoldNaN(pixels, curr, axes) ==
    HasNaN(pixels) \/ NaN \in {curr[1], curr[2]} \/ axes = "nan"

(***************************************************************************)
(* Lines 126-163: initialization from the first frame.  get_all_balls      *)
(* takes the mean of no pixels for a channel without on-pixels (nan, no    *)
(* exception) and the focal length comes from CAM_HORIZONTAL_FOV.          *)
(***************************************************************************)
Initialize ==
    /\ STATUS = "init"
    /\ \E g \in {"ok", "nopixels"} : frame' = [aud |-> FALSE, geom |-> g]
    /\ ball_projected_radius' = ProjectedRadius(frame')
    /\ FOCAL_LENGTH' = FOV_FOCAL_LENGTH
    /\ ball_actual_radius' =
          IF ~IGNORE_BALL_RADIUS /\ ~WEIGHTED_PIXELS_ELLIPSE_CORRECTION
          THEN ActualRadius(ball_projected_radius', FOCAL_LENGTH')
          ELSE BALL_RADIUS * 1000
    /\ \E sh \in FrameShapes : width' = sh[1] /\ height' = sh[2]
    /\ pos' = 1
    /\ STATUS' = "computing"
    /\ UNCHANGED <<pen_down, pen_tip, ball_rays, points, paths, axis_widget,
                   image_pixels, image_curr_pos, pixels_file, writes,
                   raw_segments, transitions>>

\* Line 127 on a video without frames: next(video) raises StopIteration.
InitializeEmptyVideo ==
    /\ STATUS = "init"
    /\ STATUS' = "crashed"
    /\ UNCHANGED <<pos, frame, pen_down, calibVars, ball_projected_radius,
                   pen_tip, ball_rays, points, paths, axis_widget,
                   image_pixels, image_curr_pos, pixels_file, writes,
                   raw_segments, transitions>>

(***************************************************************************)
(* One iteration of the main loop without a quit event in which the video  *)
(* yields SKIP_FRAMES + 1 frames (lines 176-180, 189-265, 270-314).        *)
(***************************************************************************)
\* the frame is pen-up by the audio signal: no pose is computed
FramePenUpAudio(fr) ==
    /\ ~IGNORE_AUDIO /\ ~fr.aud
    /\ pen_down' = "False"
    /\ paths' = CloseSegment(paths)
    /\ points' = IF Len(Last(paths)) > 0 THEN Flatten(paths') ELSE points
    /\ image_pixels' = IF Len(Last(paths)) > 0 THEN points' ELSE image_pixels
    /\ UNCHANGED <<axis_widget, image_curr_pos, calibVars,
                   ball_projected_radius, pen_tip, ball_rays>>
    /\ raw_segments' = IF Len(Last(raw_segments)) > 0
                       THEN Append(raw_segments, <<>>) ELSE raw_segments
    /\ transitions' = IF Len(Last(raw_segments)) > 0
                      THEN transitions + 1 ELSE transitions

\* the pose computation raises
FrameRaises(fr, tip) ==
    /\ IGNORE_AUDIO \/ fr.aud
    /\ \E o \in PoseOutcomes(fr, tip) :
          /\ o.raised
          /\ ball_rays' = o.rays
    /\ UNCHANGED pen_tip
    /\ Detect(fr)
    /\ pen_down' = "True"
    /\ STATUS' = "crashed"
    /\ UNCHANGED <<points, paths, axis_widget, image_pixels, image_curr_pos,
                   raw_segments, transitions>>

\* a pose is computed and the frame is pen-down
FramePenDown(fr, tip) ==
    /\ IGNORE_AUDIO \/ fr.aud
    /\ \E o \in PoseOutcomes(fr, tip) :
          /\ ~o.raised
          /\ ~HeightSaysUp(o.tip)
          /\ ball_rays' = o.rays
          /\ pen_tip' = o.tip
          /\ axis_widget' = IF NaN \in {o.tip[1], o.tip[2], o.tip[3]}
                            THEN "nan" ELSE "finite"
          /\ image_pixels' = points
          /\ image_curr_pos' = <<o.tip[1], o.tip[3]>>
          /\ points' = Append(points, <<o.tip[1], o.tip[3]>>)
          /\ paths' = AppendSample(paths, <<o.tip[1], o.tip[3]>>)
          /\ raw_segments' = AppendSample(raw_segments, <<o.tip[1], o.tip[3]>>)
    /\ Detect(fr)
    /\ pen_down' = "True"
    /\ UNCHANGED transitions

\* a pose is computed and its height says the pen is up (pen-height mode)
FramePenUpHeight(fr, tip) ==
    /\ IGNORE_AUDIO
    /\ \E o \in PoseOutcomes(fr, tip) :
          /\ ~o.raised
          /\ HeightSaysUp(o.tip)
          /\ ball_rays' = o.rays
          /\ pen_tip' = o.tip
          /\ axis_widget' = IF NaN \in {o.tip[1], o.tip[2], o.tip[3]}
                            THEN "nan" ELSE "finite"
          /\ image_curr_pos' = <<o.tip[1], o.tip[3]>>
    /\ Detect(fr)
    /\ pen_down' = "False"
    /\ paths' = CloseSegment(paths)
    /\ points' = IF Len(Last(paths)) > 0 THEN Flatten(paths') ELSE points
    /\ image_pixels' = points'
    /\ raw_segments' = IF Len(Last(raw_segments)) > 0
                       THEN Append(raw_segments, <<>>) ELSE raw_segments
    /\ transitions' = IF Len(Last(raw_segments)) > 0
                      THEN transitions + 1 ELSE transitions

ComputeFrame ==
    /\ STATUS = "computing"
    /\ pos + SKIP_FRAMES + 1 <= MaxVideoLen
    /\ pos' = pos + SKIP_FRAMES + 1
    /\ \E fr \in Frames, tip \in Tips, render_ok \in BOOLEAN :
          /\ fr.geom = "zerodisc" => IGNORE_BALL_RADIUS
          /\ frame' = fr
          /\ \/ FrameRaises(fr, tip)
             \/ /\ \/ FramePenUpAudio(fr)
                   \/ FramePenDown(fr, tip)
                   \/ FramePenUpHeight(fr, tip)
                /\ render_ok \/ WidgetsHoldNaN(image_pixels', image_curr_pos',
                                               axis_widget')
                /\ STATUS' = IF render_ok THEN "computing" ELSE "crashed"
    /\ UNCHANGED <<pixels_file, writes>>

\* Lines 181-187: the video is exhausted during the skipping or the read.
EndOfStream ==
    /\ STATUS = "computing"
    /\ paths' = FinalizeOpenSegment(paths)
    /\ points' = Flatten(paths')
    /\ image_pixels' = points'
    /\ pixels_file' = save_pixels(points')
    /\ writes' = writes + 1
    /\ STATUS' = "saved"
    /\ UNCHANGED <<pos, frame, pen_down, calibVars, ball_projected_radius,
                   pen_tip, ball_rays, axis_widget, image_curr_pos,
                   raw_segments, transitions>>

\* An iteration while saved, without a quit event: only the drawing part
\* runs; line 276 reads pen_down, a NameError when it was never assigned.
SavedIteration ==
    /\ STATUS = "saved"
    /\ \E render_ok \in BOOLEAN :
          /\ render_ok => pen_down # "undefined"
          /\ render_ok \/ pen_down = "undefined"
                \/ WidgetsHoldNaN(image_pixels, image_curr_pos, axis_widget)
          /\ STATUS' = IF render_ok THEN "saved" ELSE "crashed"
    /\ UNCHANGED <<pos, frame, pen_down, calibVars, ball_projected_radius,
                   pen_tip, ball_rays, points, paths, axis_widget,
                   image_pixels, image_curr_pos, pixels_file, writes,
                   raw_segments, transitions>>

\* Lines 170-172: an iteration that receives pg.QUIT; the compute part is
\* skipped, the drawing part runs, the loop ends.
QuitEvent ==
    /\ STATUS \in {"computing", "saved"}
    /\ \E render_ok \in BOOLEAN :
          /\ render_ok => pen_down # "undefined"
          /\ render_ok \/ pen_down = "undefined"
                \/ WidgetsHoldNaN(image_pixels, image_curr_pos, axis_widget)
          /\ STATUS' = IF render_ok THEN "quit" ELSE "crashed"
    /\ UNCHANGED <<pos, frame, pen_down, calibVars, ball_projected_radius,
                   pen_tip, ball_rays, points, paths, axis_widget,
                   image_pixels, image_curr_pos, pixels_file, writes,
                   raw_segments, transitions>>

(***************************************************************************)
(* vectors.py / ball_vectors.py: calibrate_focal_length                    *)
(*                                                                         *)
(* The returned float is                                                   *)
(*     initial_z / initial_dst * (sum of sqrt(t.d2), t in terms) / divisor *)
(* and is kept as that expression: the terms in the order the loop adds    *)
(* them, each with the 1-based positions of its two points and the squared *)
(* distance between them.                                                   *)
(***************************************************************************)
\* points[i] of Python for i in -1..len-1, as a 1-based position.
PyIndex(i, n) == IF i < 0 THEN n + i + 1 ELSE i + 1

SquaredDistance(a, b) ==
    (a[1] - b[1]) * (a[1] - b[1]) + (a[2] - b[2]) * (a[2] - b[2])

calibrate_focal_length_no_wrap(pts, z, dst) ==
    LET n == Len(pts)
    IN  [terms |-> [k \in 1..(n - 1) |->
                       [i |-> k, j |-> k + 1,
                        d2 |-> SquaredDistance(pts[k], pts[k + 1])]],
         divisor |-> 3, initial_z |-> z, initial_dst |-> dst]

calibrate_focal_length(pts, z, dst) ==
    LET n == Len(pts)
        \* the k-th iteration of range(-1, n - 1) has i = k - 2
        I(k) == PyIndex(k - 2, n)
        J(k) == PyIndex(k - 1, n)
    IN  [terms |-> [k \in 1..n |->
                       [i |-> I(k), j |-> J(k),
                        d2 |-> SquaredDistance(pts[I(k)], pts[J(k)])]],
         divisor |-> 3, initial_z |-> z, initial_dst |-> dst]

CalibCoords  == 0..2
CalibLengths == 2..4
CalibPointLists ==
    UNION {[1..n -> CalibCoords \X CalibCoords] : n \in CalibLengths}
InitialZs   == {INITIAL_Z, 20}
InitialDsts == {9, 10}

NoFocal == [terms |-> <<>>, divisor |-> 0, initial_z |-> 0, initial_dst |-> 0]

CalibrateFocalLength ==
    /\ calib_pc = "start"
    /\ focal_length' = calibrate_focal_length(calib_points, initial_z,
                                              initial_dst)
    /\ calib_pc' = "done"
    /\ UNCHANGED <<calib_points, initial_z, initial_dst>>

(***************************************************************************)
(* image_processing.py: filter_line and get_tangential_points              *)
(*                                                                         *)
(* A pixel is <<x, y>>; a list of pixels is in the order of np.nonzero     *)
(* (x ascending, then y ascending).  p1 is the pair (xn / d, yn / d), kept *)
(* as [xn, yn, d] with d > 0, so that the mean of a channel is exact; p2   *)
(* has integer coordinates.                                                *)
(***************************************************************************)
\* np.round of the quotient num / den (den # 0).  Away from a tie the float
\* result is the nearest integer.  At a tie t says which neighbour the
\* float computation lands on: "even" when every intermediate value is
\* exact (np.round rounds half to even), "down" or "up" when the slope or
\* the mean carries a rounding error.
np_round(num, den, t) ==
    LET n  == IF den < 0 THEN 0 - num ELSE num
        d  == IF den < 0 THEN 0 - den ELSE den
        fl == n \div d
        r  == n - fl * d
    IN  IF 2 * r < d THEN fl
        ELSE IF 2 * r > d THEN fl + 1
        ELSE IF t = "down" THEN fl
        ELSE IF t = "up" THEN fl + 1
        ELSE IF fl % 2 = 0 THEN fl ELSE fl + 1

\* Lines 142-155.  tie[c] is the side a tie falls on for the pixels whose
\* independent coordinate is c; scalars is the type of the coordinates of
\* p1 and p2 ("float64": numpy scalars, a division by zero yields inf or
\* nan and the mask is all False; "int": Python numbers, a division by
\* zero raises ZeroDivisionError).
filter_line(P1, P2, px, tie, sc) ==
    LET d  == P1.d
        DX == P2[1] * d - P1.xn          \* dx * d
        DY == P2[2] * d - P1.yn          \* dy * d
        ys(p) == np_round(P1.yn * DX + DY * (p[1] * d - P1.xn), d * DX,
                          tie[p[1]])
        xs(p) == np_round(P1.xn * DY + DX * (p[2] * d - P1.yn), d * DY,
                          tie[p[2]])
        OnLineY(p) == ys(p) = p[2]
        OnLineX(p) == xs(p) = p[1]
    IN  IF DX = 0 /\ DY = 0
        THEN [px |-> px, axis |-> "all", divisor |-> 1, raised |-> FALSE]
        ELSE IF DY <= DX
        THEN IF DX = 0
             THEN [px |-> <<>>, axis |-> "x", divisor |-> 0,
                   raised |-> (sc = "int")]
             ELSE [px |-> SelectSeq(px, OnLineY), axis |-> "x",
                   divisor |-> DX, raised |-> FALSE]
        ELSE IF DY = 0
             THEN [px |-> <<>>, axis |-> "y", divisor |-> 0,
                   raised |-> (sc = "int")]
             ELSE [px |-> SelectSeq(px, OnLineX), axis |-> "y",
                   divisor |-> DY, raised |-> FALSE]

\* np.indices / np.nonzero order of the pixels of a w x h array.
GridSeq(sh) ==
    [k \in 1..(sh[1] * sh[2]) |-> <<(k - 1) \div sh[2], (k - 1) % sh[2]>>]

Grid(sh) == (0..(sh[1] - 1)) \X (0..(sh[2] - 1))

\* np.nonzero of one channel whose on-pixels are the set S.
nonzero(S, sh) ==
    LET On(p) == p \in S IN SelectSeq(GridSeq(sh), On)

SeqSum(s, c) ==
    LET RECURSIVE Sum(_)
        Sum(k) == IF k = 0 THEN 0 ELSE s[k][c] + Sum(k - 1)
    IN  Sum(Len(s))

\* (ball_px[0].mean(), ball_px[1].mean()) of a non-empty list, line 115.
mean(px) == [xn |-> SeqSum(px, 1), yn |-> SeqSum(px, 2), d |-> Len(px)]

\* Line 108: squared distance to the principal point.
D(p, pp) ==
    (p[1] - pp[1]) * (p[1] - pp[1]) + (p[2] - pp[2]) * (p[2] - pp[2])

\* np.argmin / np.argmax: the first position of the extreme value.
argmin(px, pp) ==
    CHOOSE i \in DOMAIN px :
        /\ \A j \in DOMAIN px : D(px[i], pp) <= D(px[j], pp)
        /\ \A j \in 1..(i - 1) : D(px[j], pp) > D(px[i], pp)

argmax(px, pp) ==
    CHOOSE i \in DOMAIN px :
        /\ \A j \in DOMAIN px : D(px[i], pp) >= D(px[j], pp)
        /\ \A j \in 1..(i - 1) : D(px[j], pp) < D(px[i], pp)

\* Lines 112-116: the pixels of channel i that the search runs over.  The
\* mean of an empty channel is nan, and filter_line on no pixels returns
\* no pixels.
line_px(arr, i, use_mask, tie) ==
    LET all == nonzero(arr.on[i], arr.shape)
        pp  == <<arr.shape[1] \div 2, arr.shape[2] \div 2>>
    IN  IF use_mask /\ all # <<>>
        THEN filter_line(mean(all), pp, all, tie, "float64").px
        ELSE all

\* Lines 103-129.  empty is what np.empty left in a row that is never
\* assigned.
get_tangential_points_swapped(arr, use_mask, tie, empty) ==
    LET pp == <<arr.shape[1] \div 2, arr.shape[2] \div 2>>
    IN  [i \in 1..3 |->
            LET px == line_px(arr, i, use_mask, tie)
            IN  IF px = <<>> THEN empty
                ELSE <<px[argmax(px, pp)], px[argmin(px, pp)]>>]

get_tangential_points(arr, use_mask, tie, empty) ==
    LET pp == <<arr.shape[1] \div 2, arr.shape[2] \div 2>>
    IN  [i \in 1..3 |->
            LET px == line_px(arr, i, use_mask, tie)
            IN  IF px = <<>> THEN empty
                ELSE <<px[argmin(px, pp)], px[argmax(px, pp)]>>]

\* Inputs of filter_line called on its own.
FilterShape  == <<3, 3>>
FilterPoints == Grid(FilterShape)
ScalarTypes  == {"float64", "int"}
ExactTies    == [c \in 0..2 |-> "even"]
NoFiltered   == [px |-> <<>>, axis |-> "none", divisor |-> 0,
                 raised |-> FALSE]

FilterLine ==
    /\ filter_pc = "start"
    /\ filtered' = filter_line([xn |-> p1[1], yn |-> p1[2], d |-> 1], p2,
                               nonzeros, ExactTies, scalars)
    /\ filter_pc' = "done"
    /\ UNCHANGED <<p1, p2, nonzeros, scalars>>

\* Inputs of get_tangential_points.
TanShapes  == {<<3, 3>>, <<2, 3>>, <<3, 2>>}
SmallBalls == {{}, {<<0, 0>>}, {<<1, 0>>, <<1, 1>>}}
ThresholdArrays ==
    UNION {[shape : {sh}, on : (SUBSET Grid(sh)) \X SmallBalls \X SmallBalls]
           : sh \in TanShapes}
Ties == [0..2 -> {"down", "up"}]
EmptyRows == {<<<<0, 0>>, <<0, 0>>>>, <<<<NaN, NaN>>, <<NaN, NaN>>>>}
NoTangential == [i \in 1..3 |-> <<<<0, 0>>, <<0, 0>>>>]

GetTangentialPoints ==
    /\ tan_pc = "start"
    /\ \E tie \in Ties, empty \in EmptyRows :
          /\ tangential_points' =
                get_tangential_points(threshold_array, use_line_mask, tie,
                                      empty)
          /\ ball_px' = [i \in 1..3 |->
                            line_px(threshold_array, i, use_line_mask, tie)]
    /\ tan_pc' = "done"
    /\ UNCHANGED <<threshold_array, use_line_mask>>

CalibIdle ==
    /\ calib_points = <<>> /\ initial_z = 0 /\ initial_dst = 0
    /\ focal_length = NoFocal /\ calib_pc = "idle"

FilterIdle ==
    /\ p1 = <<0, 0>> /\ p2 = <<0, 0>> /\ nonzeros = <<>>
    /\ scalars = "float64" /\ filtered = NoFiltered /\ filter_pc = "idle"

TanIdle ==
    /\ threshold_array = [shape |-> <<0, 0>>, on |-> <<{}, {}, {}>>]
    /\ use_line_mask = TRUE /\ tangential_points = NoTangential
    /\ ball_px = <<<<>>, <<>>, <<>>>> /\ tan_pc = "idle"

FnIdle == CalibIdle /\ FilterIdle /\ TanIdle

LoopIdle ==
    /\ TANGENTIAL_ELLIPSE_CORRECTION = FALSE
    /\ WEIGHTED_PIXELS_ELLIPSE_CORRECTION = TRUE
    /\ IGNORE_AUDIO = FALSE
    /\ IGNORE_BALL_RADIUS = FALSE
    /\ STATUS = "idle"
    /\ pos = 0
    /\ frame = [aud |-> FALSE, geom |-> "ok"]
    /\ pen_down = "undefined"
    /\ FOCAL_LENGTH = 0 /\ width = 0 /\ height = 0
    /\ ball_actual_radius = 0 /\ ball_projected_radius = 0
    /\ pen_tip = <<0, 0, 0>>
    /\ ball_rays = "undefined"
    /\ points = <<>>
    /\ paths = << <<>> >>
    /\ axis_widget = "initial"
    /\ image_pixels = <<>>
    /\ image_curr_pos = <<0, 0>>
    /\ pixels_file = <<>>
    /\ writes = 0
    /\ raw_segments = << <<>> >>
    /\ transitions = 0

SmoothIdle ==
    /\ path = <<>> /\ smoothness = 1 /\ new_path = <<>> /\ smooth_pc = "idle"

ThrIdle ==
    /\ pixel = <<0, 0, 0>> /\ sat_pct = 100 /\ lightness_threshold = 0
    /\ cast_mode = "wrap" /\ mask = <<FALSE, FALSE, FALSE>> /\ thr_pc = "idle"

RaysIdle ==
    /\ projected_points = <<>> /\ vw = 0 /\ vh = 0 /\ f = 1
    /\ rays = <<>> /\ rays_pc = "idle"

NoTs == [kind |-> <<"none", "none", "none">>, num |-> <<0, 0, 0>>, rad |-> 0]

TsIdle ==
    /\ ts_rays = <<Zero3, Zero3, Zero3>> /\ ts_side = 1 /\ ts_rounding = 0
    /\ ts = NoTs /\ ts_pc = "idle"

NoAxes == <<Exact(Zero3), Exact(Zero3), Exact(Zero3)>>

OrientIdle ==
    /\ balls = <<Zero3, Zero3, Zero3>> /\ orientation = NoAxes
    /\ orient_pc = "idle"

\* Lines 19-20 of media.py; a generator that is not running has n_packets
\* at MaxPackets.
GenStart ==
    /\ audio_buffer = <<>> /\ previous_audio = <<>> /\ yielded = <<>>
    /\ n_decoded = 0 /\ decoded_since_yield = <<>>

GenIdle == GenStart /\ n_packets = MaxPackets

\* Lines 30-33 and 85 of image_processing.py: every table is None.
CacheStart ==
    /\ PIXEL_AREA_CACHE = NoTable /\ PIXEL_WEIGHT_CACHE = NoTable
    /\ F_CACHE = 0 /\ RAYS_CACHE = NoTable /\ DISTANCE_CACHE = NoTable
    /\ last_call = [fn |-> "none", shape |-> <<0, 0>>, f |-> 0,
                    recomputed |-> FALSE, prev |-> NoCall, used |-> NoTable]
    /\ prev_call = [fn \in {"weighted", "render", "tangential"} |-> NoCall]

CacheIdle == CacheStart /\ n_calls = MaxCalls

SmoothInit ==
    /\ path \in SmoothPaths
    /\ smoothness \in 1..MaxSmoothness
    /\ new_path = <<>>
    /\ smooth_pc = "start"
    /\ ThrIdle /\ RaysIdle /\ TsIdle /\ OrientIdle /\ GenIdle /\ CacheIdle
    /\ LoopIdle /\ FnIdle

SmoothNext ==
    Smooth /\ UNCHANGED <<thrVars, raysVars, tsVars, orientVars, genVars,
                          cacheVars, cfgVars, loopVars, fnVars>>

SmoothSpec == SmoothInit /\ [][SmoothNext]_vars

ThresholdInit ==
    /\ pixel \in ChannelValues \X ChannelValues \X ChannelValues
    /\ sat_pct \in SaturationPcts
    /\ lightness_threshold \in LightnessValues
    /\ cast_mode \in CastModes
    /\ mask = <<FALSE, FALSE, FALSE>>
    /\ thr_pc = "start"
    /\ SmoothIdle /\ RaysIdle /\ TsIdle /\ OrientIdle /\ GenIdle /\ CacheIdle
    /\ LoopIdle /\ FnIdle

ThresholdNext ==
    Threshold /\ UNCHANGED <<smoothVars, raysVars, tsVars, orientVars,
                             genVars, cacheVars, cfgVars, loopVars, fnVars>>

ThresholdSpec == ThresholdInit /\ [][ThresholdNext]_vars

\* get_rays on any list of pixel positions, viewport and focal length.
RaysInit ==
    /\ projected_points \in PointLists
    /\ vw \in ViewWidths
    /\ vh \in ViewHeights
    /\ f \in FocalLengths
    /\ rays = <<>>
    /\ rays_pc = "start"
    /\ SmoothIdle /\ ThrIdle /\ TsIdle /\ OrientIdle /\ GenIdle /\ CacheIdle
    /\ LoopIdle /\ FnIdle

RaysNext ==
    GetRays /\ UNCHANGED <<smoothVars, thrVars, tsVars, orientVars, genVars,
                           cacheVars, cfgVars, loopVars, fnVars>>

RaysSpec == RaysInit /\ [][RaysNext]_vars

\* compute_ts on any three unit rays, side and rounding of the dot products.
TsInit ==
    /\ ts_rays \in RayVecs \X RayVecs \X RayVecs
    /\ ts_side \in Sides
    /\ ts_rounding \in Roundings
    /\ ts = NoTs
    /\ ts_pc = "start"
    /\ SmoothIdle /\ ThrIdle /\ RaysIdle /\ OrientIdle /\ GenIdle /\ CacheIdle
    /\ LoopIdle /\ FnIdle

TsNext ==
    ComputeTs /\ UNCHANGED <<smoothVars, thrVars, raysVars, orientVars,
                             genVars, cacheVars, cfgVars, loopVars, fnVars>>

TsSpec == TsInit /\ [][TsNext]_vars

\* get_orientation on any three points.
OrientInit ==
    /\ balls \in BallPoints \X BallPoints \X BallPoints
    /\ orientation = NoAxes
    /\ orient_pc = "start"
    /\ SmoothIdle /\ ThrIdle /\ RaysIdle /\ TsIdle /\ GenIdle /\ CacheIdle
    /\ LoopIdle /\ FnIdle

OrientNext ==
    GetOrientation /\ UNCHANGED <<smoothVars, thrVars, raysVars, tsVars,
                                  genVars, cacheVars, cfgVars, loopVars, fnVars>>

OrientSpec == OrientInit /\ [][OrientNext]_vars

\* video_generator on any sequence of packets.
GenInit ==
    /\ GenStart /\ n_packets = 0
    /\ SmoothIdle /\ ThrIdle /\ RaysIdle /\ TsIdle /\ OrientIdle /\ CacheIdle
    /\ LoopIdle /\ FnIdle

GenNext ==
    \/ (AudioPacket /\ UNCHANGED <<smoothVars, thrVars, raysVars, tsVars,
                                   orientVars, cacheVars, cfgVars, loopVars, fnVars>>)
    \/ (VideoFrame /\ UNCHANGED <<smoothVars, thrVars, raysVars, tsVars,
                                  orientVars, cacheVars, cfgVars, loopVars, fnVars>>)

GenSpec == GenInit /\ [][GenNext]_vars

\* Any sequence of calls of the three functions that keep a table.
CacheInit ==
    /\ CacheStart /\ n_calls = 0
    /\ SmoothIdle /\ ThrIdle /\ RaysIdle /\ TsIdle /\ OrientIdle /\ GenIdle
    /\ LoopIdle /\ FnIdle

CacheNext ==
    \/ (CallWeighted /\ UNCHANGED <<smoothVars, thrVars, raysVars, tsVars,
                                    orientVars, genVars, cfgVars, loopVars, fnVars>>)
    \/ (CallRenderBall /\ UNCHANGED <<smoothVars, thrVars, raysVars, tsVars,
                                      orientVars, genVars, cfgVars, loopVars, fnVars>>)
    \/ (CallTangential /\ UNCHANGED <<smoothVars, thrVars, raysVars, tsVars,
                                      orientVars, genVars, cfgVars, loopVars, fnVars>>)

CacheSpec == CacheInit /\ [][CacheNext]_vars

\* calibrate_focal_length on any two to four points and any distances.
CalibInit ==
    /\ calib_points \in CalibPointLists
    /\ initial_z \in InitialZs
    /\ initial_dst \in InitialDsts
    /\ focal_length = NoFocal
    /\ calib_pc = "start"
    /\ FilterIdle /\ TanIdle
    /\ SmoothIdle /\ ThrIdle /\ RaysIdle /\ TsIdle /\ OrientIdle /\ GenIdle
    /\ CacheIdle /\ LoopIdle

CalibNext ==
    CalibrateFocalLength
        /\ UNCHANGED <<smoothVars, thrVars, raysVars, tsVars, orientVars,
                       genVars, cacheVars, cfgVars, loopVars, filterVars,
                       tanVars>>

CalibSpec == CalibInit /\ [][CalibNext]_vars

\* filter_line on any two pixel positions and any list of pixels.
FilterInit ==
    /\ p1 \in FilterPoints
    /\ p2 \in FilterPoints
    /\ nonzeros \in {nonzero(S, FilterShape) : S \in SUBSET FilterPoints}
    /\ scalars \in ScalarTypes
    /\ filtered = NoFiltered
    /\ filter_pc = "start"
    /\ CalibIdle /\ TanIdle
    /\ SmoothIdle /\ ThrIdle /\ RaysIdle /\ TsIdle /\ OrientIdle /\ GenIdle
    /\ CacheIdle /\ LoopIdle

FilterNext ==
    FilterLine
        /\ UNCHANGED <<smoothVars, thrVars, raysVars, tsVars, orientVars,
                       genVars, cacheVars, cfgVars, loopVars, calibFnVars,
                       tanVars>>

FilterSpec == FilterInit /\ [][FilterNext]_vars

\* get_tangential_points on any mask of a small frame.
TanInit ==
    /\ threshold_array \in ThresholdArrays
    /\ use_line_mask \in BOOLEAN
    /\ tangential_points = NoTangential
    /\ ball_px = <<<<>>, <<>>, <<>>>>
    /\ tan_pc = "start"
    /\ CalibIdle /\ FilterIdle
    /\ SmoothIdle /\ ThrIdle /\ RaysIdle /\ TsIdle /\ OrientIdle /\ GenIdle
    /\ CacheIdle /\ LoopIdle

TanNext ==
    GetTangentialPoints
        /\ UNCHANGED <<smoothVars, thrVars, raysVars, tsVars, orientVars,
                       genVars, cacheVars, cfgVars, loopVars, filterVars,
                       calibFnVars>>

TanSpec == TanInit /\ [][TanNext]_vars

\* The state before script.py line 126, in any configuration.
Init ==
    /\ TANGENTIAL_ELLIPSE_CORRECTION \in BOOLEAN
    /\ WEIGHTED_PIXELS_ELLIPSE_CORRECTION \in BOOLEAN
    /\ IGNORE_AUDIO \in BOOLEAN
    /\ IGNORE_BALL_RADIUS \in BOOLEAN
    /\ STATUS = "init"
    /\ pos = 0
    /\ frame = [aud |-> FALSE, geom |-> "ok"]
    /\ pen_down = "undefined"
    /\ FOCAL_LENGTH = 0 /\ width = 0 /\ height = 0
    /\ ball_actual_radius = 0 /\ ball_projected_radius = 0
    /\ pen_tip = <<0, 0, 0>>
    /\ ball_rays = "undefined"
    /\ points = <<>>
    /\ paths = << <<>> >>
    /\ axis_widget = "initial"
    /\ image_pixels = <<>>
    /\ image_curr_pos = <<0, 0>>
    /\ pixels_file = <<>>
    /\ writes = 0
    /\ raw_segments = << <<>> >>
    /\ transitions = 0
    /\ SmoothIdle /\ ThrIdle /\ RaysIdle /\ TsIdle /\ OrientIdle /\ GenIdle
    /\ CacheIdle /\ FnIdle

OtherVars == <<smoothVars, thrVars, raysVars, tsVars, orientVars, genVars,
               cacheVars, cfgVars, fnVars>>

Next ==
    \/ (Initialize /\ UNCHANGED OtherVars)
    \/ (InitializeEmptyVideo /\ UNCHANGED OtherVars)
    \/ (ComputeFrame /\ UNCHANGED OtherVars)
    \/ (EndOfStream /\ UNCHANGED OtherVars)
    \/ (SavedIteration /\ UNCHANGED OtherVars)
    \/ (QuitEvent /\ UNCHANGED OtherVars)

Spec == Init /\ [][Next]_vars

(***************************************************************************)
(* Properties of median_line_smoothing                                     *)
(***************************************************************************)
Count(vals, P(_)) == Cardinality({i \in DOMAIN vals : P(vals[i])})

\* v is the r-th smallest value of vals.
IsKth(v, vals, r) ==
    /\ v \in Range(vals)
    /\ Count(vals, LAMBDA w : w < v) < r
    /\ Count(vals, LAMBDA w : w <= v) >= r

\* m is the median of vals, stated by rank and not by sorting.
IsMedian(m, vals) ==
    LET n == Len(vals)
    IN  IF n % 2 = 1 THEN IsKth(m, vals, (n + 1) \div 2)
        ELSE \E lo, hi \in Range(vals) :
                /\ IsKth(lo, vals, n \div 2)
                /\ IsKth(hi, vals, n \div 2 + 1)
                /\ 2 * m = lo + hi

IsMedianPoint(pt, pts) ==
    /\ IsMedian(pt[1], [i \in 1..Len(pts) |-> pts[i][1]])
    /\ IsMedian(pt[2], [i \in 1..Len(pts) |-> pts[i][2]])

\* C1: for len(path) > k >= 1 the filter returns len(path) - k + 1 points.
C1_SmoothLength ==
    (smooth_pc = "done" /\ Len(path) > smoothness)
        => Len(new_path) = Len(path) - smoothness + 1

\* C2: for len(path) > k >= 1 the point returned at index i is the
\* component-wise median of the k input points that start at index i, the
\* output being in increasing order of i.
C2_TrailingMedian ==
    (smooth_pc = "done" /\ Len(path) > smoothness)
        => \A i \in 1..Len(new_path) :
              /\ i + smoothness - 1 <= Len(path)
              /\ IsMedianPoint(new_path[i], SubSeq(path, i, i + smoothness - 1))

C2_Witness ==
    /\ smooth_pc = "done"
    /\ smoothness = 2
    /\ Len(path) = 4
    /\ Len(new_path) >= 2
    /\ new_path[1] # new_path[2]
    /\ new_path[1] # path[1]

\* C3: for len(path) <= k the filter returns the empty list for the empty
\* path and otherwise one point, the component-wise median of the whole path.
C3_ShortPath ==
    (smooth_pc = "done" /\ Len(path) <= smoothness)
        => IF Len(path) = 0 THEN new_path = <<>>
           ELSE Len(new_path) = 1 /\ IsMedianPoint(new_path[1], path)

C3_Witness ==
    /\ smooth_pc = "done"
    /\ Len(path) = 3
    /\ smoothness >= 3
    /\ path[1] # path[2]
    /\ Len(new_path) = 1

\* The index of path whose point exceeds every other point in x and in y.
IsOutlier(o) ==
    \A j \in 1..Len(path) : j # o =>
        (path[o][1] > path[j][1] /\ path[o][2] > path[j][2])

\* C4: with window 3 and a path longer than 3 that holds one outlier point,
\* no returned point equals the outlier.
C4_OutlierSuppressed ==
    (smooth_pc = "done" /\ smoothness = 3 /\ Len(path) > 3)
        => \A o \in 1..Len(path) : IsOutlier(o) =>
              \A i \in 1..Len(new_path) : new_path[i] # path[o]

C4_Witness ==
    /\ smooth_pc = "done"
    /\ smoothness = 3
    /\ Len(path) = 5
    /\ IsOutlier(3)
    /\ Len(new_path) = 2
    /\ path[1] # path[2]

(***************************************************************************)
(* Properties of the main loop                                             *)
(***************************************************************************)
\* C5: a processed frame whose geometry is degenerate (and whose pen signal
\* asks for a pose) appends no sample and closes no segment: points and
\* paths after the frame equal points and paths before it.
C5_DegenerateFrameSkipped ==
    [][ ( /\ STATUS = "computing"
          /\ pos' > pos
          /\ frame'.geom # "ok"
          /\ (IGNORE_AUDIO \/ frame'.aud) )
        => (points' = points /\ paths' = paths) ]_vars

\* C6: when a channel of the first frame's mask has no on-pixel, the
\* initialization fails: the main loop is never entered.
C6_CalibrationFatal ==
    (pos = 1 /\ frame.geom = "nopixels")
        => STATUS \notin {"computing", "saved", "quit"}

\* C7: the number of segments in paths is one plus the number of
\* down-to-up transitions seen so far; a pen-up frame that finds the open
\* segment empty opens no segment.
C7_SegmentCount == Len(paths) = 1 + transitions

C7_Witness ==
    /\ transitions = 1
    /\ Len(paths) = 2
    /\ pen_down = "False"
    /\ pos = 1 + 3 * (SKIP_FRAMES + 1)
    /\ Last(paths) = <<>>
    /\ STATUS = "computing"

\* The window each segment is smoothed with when it is closed.
ClosingWindow(i) ==
    IF i < Len(raw_segments) THEN SMOOTHING_CONSTANT ELSE END_SMOOTHING

\* C8: at end of stream the open segment is replaced by its smoothed
\* version before the flattened path is written, so the file holds the
\* smoothed version of every segment and no unsmoothed one.
C8_FinalSegmentSmoothed ==
    writes > 0 =>
        /\ Last(paths) = median_line_smoothing(Last(raw_segments), END_SMOOTHING)
        /\ pixels_file =
              save_pixels(Flatten([i \in 1..Len(raw_segments) |->
                  median_line_smoothing(raw_segments[i], ClosingWindow(i))]))

C8_Witness ==
    /\ STATUS = "saved"
    /\ writes = 1
    /\ transitions = 0
    /\ Len(raw_segments[1]) = 2
    /\ pixels_file = << "1.0 0.0\n" >>

\* Segment i of paths is closed: a later segment exists or the stream ended.
Closed(i) == i < Len(paths) \/ writes > 0

\* C9: a segment is smoothed once, when it is closed, from its own samples
\* (until then it holds its raw samples), and the content of a closed
\* segment is changed by no later step.
C9_ClosedSegmentsFixed ==
    /\ [](/\ Len(paths) = Len(raw_segments)
          /\ \A i \in 1..Len(paths) :
                paths[i] = IF Closed(i)
                           THEN median_line_smoothing(raw_segments[i],
                                                      ClosingWindow(i))
                           ELSE raw_segments[i])
    /\ [][\A i \in 1..Len(paths) :
             Closed(i) => (i <= Len(paths') /\ paths'[i] = paths[i])]_vars

C9_Witness ==
    /\ STATUS = "saved"
    /\ transitions = 1
    /\ Len(raw_segments[1]) = 3
    /\ Len(paths[1]) = 2
    /\ paths[1][1] # paths[1][2]
    /\ Len(paths) = 2

(***************************************************************************)
(* Properties of threshold                                                 *)
(***************************************************************************)
\* C10: channel c is on iff its value is strictly greater than
\* max(mean * (1 / saturationThreshold), lightnessThreshold), also when
\* mean * (1 / saturationThreshold) exceeds 255.
C10_ThresholdRule ==
    thr_pc = "done" =>
        \A c \in 1..3 :
            mask[c] <=> ( /\ pixel[c] * 3 * sat_pct > Sum3(pixel) * 100
                          /\ pixel[c] > lightness_threshold )

(***************************************************************************)
(* Properties of the main loop: rays, pose, output file, calibration       *)
(***************************************************************************)
\* C11: in every configuration, a frame with sound geometry whose pen signal
\* asks for a pose leaves in ball_rays, the vectors that line 237 multiplies
\* by the scale factors, three 3-component unit rays.
C11_BallRaysAreUnitRays ==
    [][ ( /\ STATUS = "computing"
          /\ pos' > pos
          /\ frame'.geom = "ok"
          /\ (IGNORE_AUDIO \/ frame'.aud) )
        => ball_rays' = "unit3" ]_vars

\* C15: a processed frame whose three marker positions are collinear brings
\* no nan into the axis widget, the image widget or the path.
C15_CollinearPoseUnavailable ==
    [][ ( /\ STATUS = "computing"
          /\ pos' > pos
          /\ frame'.geom = "collinear"
          /\ (IGNORE_AUDIO \/ frame'.aud) )
        => ( /\ axis_widget' = "nan" => axis_widget = "nan"
             /\ NaN \in {image_curr_pos'[1], image_curr_pos'[2]}
                    => image_curr_pos' = image_curr_pos
             /\ HasNaN(Last(paths')) => paths' = paths ) ]_vars

\* The text of a coordinate in the output file.
Shown(v) ==
    CASE v = NaN -> "nan"
      [] v = 0   -> "0.0"
      [] v = 1   -> "1.0"
      [] v = 2   -> "2.0"

\* Number of samples in the segments before segment i.
RECURSIVE SamplesBefore(_, _)
SamplesBefore(ps, i) ==
    IF i <= 1 THEN 0 ELSE SamplesBefore(ps, i - 1) + Len(ps[i - 1])

\* C16: once the file is written it has one line per sample of paths, in
\* segment order and then sample order, each line "x z".
C16_FileIsFlattenedPath ==
    writes > 0 =>
        /\ Len(pixels_file) = SamplesBefore(paths, Len(paths) + 1)
        /\ \A i \in DOMAIN paths : \A j \in DOMAIN paths[i] :
              pixels_file[SamplesBefore(paths, i) + j]
                  = Shown(paths[i][j][1]) \o " " \o Shown(paths[i][j][2]) \o "\n"

C16_Witness ==
    /\ writes = 1
    /\ Len(paths) = 2
    /\ Len(paths[1]) >= 1
    /\ Len(paths[2]) >= 1
    /\ pixels_file[1] # pixels_file[Len(pixels_file)]
    /\ pixels_file[1] = "2.0 0.0\n"

\* C17: no step taken while the main loop runs changes the focal length,
\* the viewport width and height or the calibrated marker radius, and they
\* are the values of the initialization.
C17_CalibrationFixed ==
    [][ (STATUS \in {"computing", "saved"})
        => ( /\ calibVars' = calibVars
             /\ FOCAL_LENGTH = FOV_FOCAL_LENGTH
             /\ (\E sh \in FrameShapes : width = sh[1] /\ height = sh[2]) )
      ]_vars

C17_Witness ==
    /\ STATUS = "computing"
    /\ pos > 1
    /\ ~TANGENTIAL_ELLIPSE_CORRECTION /\ ~WEIGHTED_PIXELS_ELLIPSE_CORRECTION
    /\ ~IGNORE_BALL_RADIUS
    /\ ball_projected_radius = 0
    /\ ball_actual_radius = ActualRadius(108, FOV_FOCAL_LENGTH)

(***************************************************************************)
(* Properties of the lookup tables                                         *)
(***************************************************************************)
\* C12: a call of get_all_balls_weighted or get_tangential_points recomputes
\* its table only if the function was never called before or the resolution
\* or focal length of the call differs from those of its previous call.
C12_RecomputeOnlyOnChange ==
    (last_call.fn \in {"weighted", "tangential"} /\ last_call.recomputed)
        => \/ ~last_call.prev.called
           \/ last_call.prev.shape # last_call.shape
           \/ last_call.prev.f # last_call.f

(***************************************************************************)
(* Properties of vectors.py                                                *)
(***************************************************************************)
\* C13: for three unit rays of pairwise distinct directions the scale
\* factors of compute_ts satisfy, for each pair,
\* t_i^2 + t_j^2 - 2 t_i t_j (r_i . r_j) = side^2  (both sides multiplied
\* by rad / RayNorm2, which clears the square root and the denominators).
C13_EquilateralTriangle ==
    ( /\ ts_pc = "done"
      /\ ts_rays[1] # ts_rays[2] /\ ts_rays[2] # ts_rays[3]
      /\ ts_rays[1] # ts_rays[3] )
    => \A i \in 1..3 : \A j \in 1..3 :
          i < j =>
             RayNorm2 * (ts.num[i] * ts.num[i] + ts.num[j] * ts.num[j])
                 - 2 * ts.num[i] * ts.num[j] * Dot(ts_rays[i], ts_rays[j])
               = ts_side * ts_side * ts.rad

NonCollinear(b) == Cross(Minus(b[2], b[3]), Minus(b[1], b[3])) # Zero3

IsUnit(a) == a.den2 > 0 /\ Dot(a.dir, a.dir) = a.den2

\* C14: for a non-collinear triple the axes are unit vectors, pairwise
\* orthogonal, with x cross y = z, x along b2 - b3 and z perpendicular to
\* b1 - b3 and b2 - b3.
C14_OrthonormalRightHanded ==
    (orient_pc = "done" /\ NonCollinear(balls)) =>
        LET x == orientation[1]
            y == orientation[2]
            z == orientation[3]
            c == Cross(x.dir, y.dir)
        IN  /\ IsUnit(x) /\ IsUnit(y) /\ IsUnit(z)
            /\ Dot(x.dir, y.dir) = 0
            /\ Dot(y.dir, z.dir) = 0
            /\ Dot(x.dir, z.dir) = 0
            /\ Cross(c, z.dir) = Zero3
            /\ Dot(c, z.dir) > 0
            /\ Dot(c, c) * z.den2 = Dot(z.dir, z.dir) * x.den2 * y.den2
            /\ Cross(x.dir, Minus(balls[2], balls[3])) = Zero3
            /\ Dot(x.dir, Minus(balls[2], balls[3])) > 0
            /\ Dot(z.dir, Minus(balls[1], balls[3])) = 0
            /\ Dot(z.dir, Minus(balls[2], balls[3])) = 0

C14_Witness ==
    /\ orient_pc = "done"
    /\ balls = << <<0, 2, 1>>, <<2, 0, 0>>, <<0, 1, 0>> >>
    /\ NonCollinear(balls)

\* C18: every row of get_rays has unit length and a negative z, with
\* x = px - w/2 and y = -(py - h/2) before normalization (rows doubled).
C18_RaysUnitNegativeZ ==
    rays_pc = "done" =>
        /\ Len(rays) = Len(projected_points)
        /\ \A i \in DOMAIN rays :
              /\ IsUnit(rays[i])
              /\ rays[i].dir[3] < 0
              /\ rays[i].dir[1] = 2 * projected_points[i][1] - vw
              /\ rays[i].dir[2] = 0 - (2 * projected_points[i][2] - vh)

C18_Witness ==
    /\ rays_pc = "done"
    /\ projected_points = << <<0, 3>>, <<3, 0>> >>
    /\ vw = 3 /\ vh = 2
    /\ rays[1].dir[2] < 0 /\ rays[2].dir[2] > 0

Identical(rs) == rs[1] = rs[2] /\ rs[2] = rs[3]

\* C19 as stated: three identical unit rays give a non-finite result for
\* every scale factor.
C19_IdenticalRaysNonFinite ==
    (ts_pc = "done" /\ Identical(ts_rays)) =>
        \A k \in 1..3 : ts.kind[k] \in {"nan", "inf"}

\* C19 amended: three identical unit rays give, for every scale factor, nan,
\* or the huge finite side / sqrt(2 (1 - r.r)) when r.r rounds below one.
C19_IdenticalRaysNonFiniteOrHuge ==
    (ts_pc = "done" /\ Identical(ts_rays)) =>
        \A k \in 1..3 :
            ts.kind[k] = (IF ts_rounding < 0 THEN "huge" ELSE "nan")

C19_Witness ==
    /\ ts_pc = "done"
    /\ Identical(ts_rays)
    /\ ts_rounding = 0 - 1
    /\ ts.kind = <<"huge", "huge", "huge">>

(***************************************************************************)
(* Properties of video_generator                                           *)
(***************************************************************************)
\* C20: the chunk yielded with a video frame is exactly the audio decoded
\* since the previous yield, and no sample is delivered with two frames.
C20_ChunkIsAudioSinceLastFrame ==
    /\ \A i \in DOMAIN yielded : yielded[i].aud = yielded[i].decoded
    /\ \A i \in DOMAIN yielded : \A j \in DOMAIN yielded :
          i < j => Range(yielded[i].aud) \cap Range(yielded[j].aud) = {}

(***************************************************************************)
(* Further properties of the main loop                                     *)
(***************************************************************************)
\* C25: in every state between two iterations, points holds the samples of
\* the segments of paths, segment after segment, and nothing else.
C25_PointsAreConcatenation ==
    /\ Len(points) = SamplesBefore(paths, Len(paths) + 1)
    /\ \A i \in DOMAIN paths : \A j \in DOMAIN paths[i] :
          points[SamplesBefore(paths, i) + j] = paths[i][j]

C25_Witness ==
    /\ STATUS = "computing"
    /\ Len(paths) = 2
    /\ Len(paths[1]) = 1
    /\ Len(paths[2]) = 2
    /\ paths[1][1] # paths[2][1]

\* C29: the segment finalized at end of stream is smoothed with the window
\* of the segments closed by a down-to-up transition, SMOOTHING_CONSTANT.
C29_SameWindowAtEnd ==
    writes > 0 =>
        Last(paths) = median_line_smoothing(Last(raw_segments),
                                            SMOOTHING_CONSTANT)

\* C30: the file is written once, on the step from computing to saved;
\* while saved no frame is requested and no sample is appended, and every
\* iteration ends saved or, on a quit event, quit; a run that quits before
\* the end of the stream never writes the file.
C30_SavedOnceThenIdle ==
    [][ /\ writes' # writes
            => (STATUS = "computing" /\ STATUS' = "saved" /\ writes = 0)
        /\ (STATUS = "computing" /\ STATUS' = "saved") => writes' = 1
        /\ STATUS = "saved"
            => ( /\ STATUS' \in {"saved", "quit"}
                 /\ pos' = pos /\ points' = points /\ paths' = paths
                 /\ pixels_file' = pixels_file )
        /\ (STATUS = "computing" /\ STATUS' = "quit") => writes' = 0
        /\ STATUS = "quit" => STATUS' = "quit" ]_vars

(***************************************************************************)
(* Further properties of the lookup tables and of threshold                *)
(***************************************************************************)
\* C26: the table a call of get_all_balls_weighted or render_ball reads was
\* built for the resolution and the focal length of that call.
C26_TableMatchesCall ==
    last_call.fn \in {"weighted", "render"}
        => /\ last_call.used.built
           /\ last_call.used.shape = last_call.shape
           /\ last_call.used.f = last_call.f

\* C28: with a saturation threshold of at most 100 percent, threshold never
\* marks all three channels of a pixel as on.
C28_NeverAllChannels ==
    (thr_pc = "done" /\ sat_pct <= 100)
        => ~(mask[1] /\ mask[2] /\ mask[3])

(***************************************************************************)
(* Pen-state gating                                                        *)
(***************************************************************************)
\* The step appended one sample to points and to the open segment.
Appended ==
    /\ Len(points') = Len(points) + 1
    /\ Len(paths') = Len(paths)
    /\ Len(Last(paths')) = Len(Last(paths)) + 1
    /\ Last(Last(paths')) = Last(points')

\* C21: a processed frame appends a sample iff it is pen-down by the
\* configured signal: in audio mode iff the audio is not below the
\* threshold (a pen-up frame computes no pose and leaves the axis widget
\* alone); in pen-height mode iff the computed height of the pen tip is
\* below -PEN_LENGTH + PEN_THRESHOLD.
C21_AppendIffPenDown ==
    [][ (STATUS = "computing" /\ pos' > pos /\ STATUS' = "computing")
        => IF IGNORE_AUDIO
           THEN Appended <=> ( /\ pen_tip'[2] # NaN
                               /\ pen_tip'[2] < 0 - PEN_LENGTH + PEN_THRESHOLD )
           ELSE /\ Appended <=> frame'.aud
                /\ ~frame'.aud => ( /\ axis_widget' = axis_widget
                                    /\ pen_tip' = pen_tip ) ]_vars

(***************************************************************************)
(* Properties of calibrate_focal_length                                    *)
(***************************************************************************)
PairsSummed(r) == {{r.terms[k].i, r.terms[k].j} : k \in DOMAIN r.terms}

\* C24: given exactly three points, calibrate_focal_length adds the
\* distance of each of the three unordered pairs of points exactly once,
\* divides the sum by three and scales it by initial_z / initial_dst.
C24_ThreePairsOnceEach ==
    (calib_pc = "done" /\ Len(calib_points) = 3) =>
        /\ Len(focal_length.terms) = 3
        /\ PairsSummed(focal_length) = {{1, 2}, {2, 3}, {1, 3}}
        /\ \A k \in DOMAIN focal_length.terms :
              LET t == focal_length.terms[k]
              IN  t.d2 = SquaredDistance(calib_points[t.i], calib_points[t.j])
        /\ focal_length.divisor = 3
        /\ focal_length.initial_z = initial_z
        /\ focal_length.initial_dst = initial_dst

C24_Witness ==
    /\ calib_pc = "done"
    /\ calib_points = <<<<0, 0>>, <<2, 0>>, <<0, 1>>>>
    /\ [k \in 1..3 |-> focal_length.terms[k].d2] = <<1, 4, 5>>
    /\ initial_z = INITIAL_Z /\ initial_dst = 9

(***************************************************************************)
(* Properties of filter_line                                               *)
(***************************************************************************)
Abs(x) == IF x < 0 THEN 0 - x ELSE x

PxSet(s) == {s[k] : k \in DOMAIN s}

\* The pixel p passes the dominant-axis test of the line through a and b
\* (a # b): its coordinate on the other axis equals the rounded projection.
OnDominantLine(p, a, b) ==
    LET dx == b[1] - a[1]
        dy == b[2] - a[2]
    IN  IF Abs(dx) >= Abs(dy)
        THEN np_round(a[2] * dx + dy * (p[1] - a[1]), dx, "even") = p[2]
        ELSE np_round(a[1] * dy + dx * (p[2] - a[2]), dy, "even") = p[1]

\* C23: for distinct p1 and p2 filter_line computes y from x when
\* |dx| >= |dy| and x from y otherwise, and keeps exactly the pixels whose
\* rounded projection equals their coordinate; the result is a subset of
\* the input, and the whole input when p1 = p2.
C23_DominantAxisFilter ==
    filter_pc = "done" =>
        /\ ~filtered.raised
        /\ PxSet(filtered.px) \subseteq PxSet(nonzeros)
        /\ p1 = p2 => filtered.px = nonzeros
        /\ p1 # p2 =>
              /\ filtered.axis =
                    (IF Abs(p2[1] - p1[1]) >= Abs(p2[2] - p1[2])
                     THEN "x" ELSE "y")
              /\ \A p \in PxSet(nonzeros) :
                    p \in PxSet(filtered.px) <=> OnDominantLine(p, p1, p2)

\* C27: for distinct p1 and p2 the divisor of the slope is not zero.
C27_DivisorNonZero ==
    (filter_pc = "done" /\ p1 # p2) =>
        (filtered.divisor # 0 /\ ~filtered.raised)

(***************************************************************************)
(* Properties of get_tangential_points                                     *)
(***************************************************************************)
PrincipalPoint == <<threshold_array.shape[1] \div 2,
                    threshold_array.shape[2] \div 2>>

\* C22: for every channel whose (line-filtered, if asked) set of on-pixels
\* is not empty, [i,0] is a pixel of that set at minimal squared distance
\* from the principal point and [i,1] one at maximal squared distance.
C22_NearestAndFarthest ==
    tan_pc = "done" =>
        \A i \in 1..3 :
            LET S == PxSet(ball_px[i])
                near == tangential_points[i][1]
                far  == tangential_points[i][2]
            IN  /\ S \subseteq threshold_array.on[i]
                /\ ~use_line_mask => S = threshold_array.on[i]
                /\ S # {} =>
                      /\ near \in S /\ far \in S
                      /\ \A q \in S :
                            /\ D(near, PrincipalPoint) <= D(q, PrincipalPoint)
                            /\ D(far, PrincipalPoint) >= D(q, PrincipalPoint)

C22_Witness ==
    /\ tan_pc = "done" /\ use_line_mask
    /\ threshold_array.shape = <<3, 3>>
    /\ Cardinality(PxSet(ball_px[1])) >= 2
    /\ PxSet(ball_px[1]) # threshold_array.on[1]
    /\ D(tangential_points[1][1], PrincipalPoint)
          < D(tangential_points[1][2], PrincipalPoint)
    /\ ball_px[2] = <<>> /\ ball_px[3] # <<>>

====
